---- MODULE Spec2Model ----
(***************************************************************************)
(* Task_Agent: the Task / Workflow state machine, the title-based router   *)
(* and executor (TaskAgent.execute_task and its six handlers) and the      *)
(* workflow runner (TaskAgent.run_workflow), modelled from                 *)
(* src/src/task_agent/agent.py, task.py and paper.py.                      *)
(*                                                                         *)
(* Texts are sequences of fragments: an f-string is the concatenation of   *)
(* its literal fragments and its interpolated values.  A title is the set  *)
(* of words occurring in it, which is all that the substring tests of the  *)
(* router depend on.                                                       *)
(***************************************************************************)
EXTENDS Integers, Sequences, FiniteSets, TLC

\* ---------------------------------------------------------------- bounds
MaxTasks == 2
MaxCalls == 2

\* ------------------------------------------------------- values and texts
\* Optional[...] values: None is the empty tuple, a set value x is <<x>>
None == <<>>
Some(x) == <<x>>
IsSet(o) == o # None

PENDING == "pending"
IN_PROGRESS == "in_progress"
COMPLETED == "completed"
FAILED == "failed"
WAITING_USER == "waiting_user"

TaskStatus == {PENDING, IN_PROGRESS, COMPLETED, FAILED, WAITING_USER}

\* what GeminiClient.generate can return, and the messages it can raise with
\* (a text of two lines, the second one a bullet)
Responses == {<<"resp_a", "- resp_b">>}
ProviderErrors == {<<"quota exceeded">>}
\* what DocumentGenerator.generate_all_formats can raise with
RenderErrors == {<<"disk full">>}

\* ------------------------------------------------------------ the titles
\* str.lower() on the words of the vocabulary
LowerTable ==
  [Collect |-> "collect", Search |-> "search", SEARCH |-> "search",
   Upload |-> "upload", Download |-> "download", Analyze |-> "analyze",
   Read |-> "read", Outline |-> "outline", Structure |-> "structure",
   Write |-> "write", WRITE |-> "write", Review |-> "review",
   Research |-> "research", Papers |-> "papers", Create |-> "create",
   Summarize |-> "summarize", Findings |-> "findings"]

Vocabulary == DOMAIN LowerTable

Lower(w) == LowerTable[w]

\* proper substrings among the lower-cased words: "search" in "research"
ProperSubstring == {<<"search", "research">>}

\* kw in title.lower()
Contains(title, kw) ==
  \E w \in title : Lower(w) = kw \/ <<kw, Lower(w)>> \in ProperSubstring

\* Route with the write/review test moved to the front of the chain
RouteWritingFirst(title) ==
  IF Contains(title, "write") \/ Contains(title, "review") THEN "writing"
  ELSE IF Contains(title, "collect") \/ Contains(title, "search") THEN "collection"
  ELSE IF Contains(title, "upload") \/ Contains(title, "download") THEN "upload"
  ELSE IF Contains(title, "analyze") \/ Contains(title, "read") THEN "analysis"
  ELSE IF Contains(title, "outline") \/ Contains(title, "structure") THEN "outline"
  ELSE "generic"

\* the if / elif chain of execute_task; first match wins
Route(title) ==
  IF Contains(title, "collect") \/ Contains(title, "search") THEN "collection"
  ELSE IF Contains(title, "upload") \/ Contains(title, "download") THEN "upload"
  ELSE IF Contains(title, "analyze") \/ Contains(title, "read") THEN "analysis"
  ELSE IF Contains(title, "outline") \/ Contains(title, "structure") THEN "outline"
  ELSE IF Contains(title, "write") \/ Contains(title, "review") THEN "writing"
  ELSE "generic"

Handlers == {"collection", "upload", "analysis", "outline", "writing", "generic"}

\* ------------------------------------------------------------ the state
VARIABLES
  tasks,             \* workflow.tasks, in execution order
  wf_metadata,       \* workflow.metadata
  current_workflow,  \* self.current_workflow: "None" or "wf"
  papers,            \* paper_manager.papers
  papers_file,       \* papers_metadata.json
  file,              \* the workflow snapshot <base_dir>/<workflow.id>.json
  clock,             \* what the next datetime.now() returns
  pc,                \* position of the control in run_workflow / execute_task
  caller,            \* who called execute_task: "run", "direct" or "None"
  i,                 \* position (1-based) of the task in hand
  k,                 \* position in the papers loop of _handle_paper_analysis
  analysis_results,  \* local of _handle_paper_analysis
  hres,              \* outcome of the handler: returned text or raised message
  success,           \* what the last execute_task returned: "None", "True", "False"
  ret,               \* what the last call returned: "None", "True", "False", "raised"
  calls,             \* number of run_workflow / execute_task calls so far
  handlerLog,        \* handlers invoked during the current call
  genLog,            \* generation requests issued during the current call
  snap,              \* each task as it was at the start of the call, or at the end of its visit
  current_task_index, \* workflow.current_task_index
  out                \* what the last call of a Workflow method returned

vars == <<tasks, wf_metadata, current_workflow, papers, papers_file, file, clock,
          pc, caller, i, k, analysis_results, hres, success, ret, calls,
          handlerLog, genLog, snap, current_task_index, out>>

MetaKeys == {"suggested_papers", "paper_analysis", "outline", "output_files",
             "review_content"}

EmptyMetadata == [key \in MetaKeys |-> None]

\* the instant every object of the model was constructed at: before the clock starts
Epoch == 0

\* Task(id, title, description, status=...): the dataclass defaults
NewTask(id, title, description, status) ==
  [id |-> id, title |-> title, description |-> description, status |-> status,
   result |-> None, created_at |-> Epoch, completed_at |-> None,
   metadata |-> EmptyMetadata]

\* f"task_{task_num}"
TaskId(task_num) == "task_" \o ToString(task_num)

\* the description a task of the model is given
Description(title) == <<"about", title>>

\* Paper(title=...): the dataclass defaults
NewPaper(title) == [title |-> title, summary |-> None, key_findings |-> <<>>]

\* what the paper manager holds when the agent starts: nothing, or one paper loaded
\* from papers_metadata.json
RegisteredPapers == {<<>>, <<NewPaper("P1")>>}

\* titles of the workflows explored: one per handler
WorkflowTitles ==
  {{"Collect", "Papers"}, {"Upload", "Papers"}, {"Analyze", "Papers"},
   {"Create", "Outline"}, {"Write", "Review"}, {"Summarize", "Findings"}}

\* statuses a task is constructed with: the default, or WAITING_USER as in
\* _get_default_review_tasks
InitialStatuses == {PENDING, WAITING_USER}

\* titles of the tasks constructed WAITING_USER: the upload task of
\* _get_default_review_tasks, and one that the router sends to another handler
WaitingTitles == {{"Upload", "Papers"}, {"Collect", "Papers"}}

\* the tasks a workflow is built from: title and status
InitialTasks ==
  {<<t, PENDING>> : t \in WorkflowTitles} \cup
  {<<t, WAITING_USER>> : t \in WaitingTitles}

\* the list of tasks, numbered task_1, task_2, ... as decompose_task numbers them
BuildTasks(s) ==
  [j \in DOMAIN s |-> NewTask(TaskId(j), s[j][1], Description(s[j][1]), s[j][2])]

SeqsUpTo(S, n) == UNION {[1..m -> S] : m \in 0..n}

\* the locals of execute_task hold nothing outside a call
NoOutcome == [ok |-> TRUE, text |-> <<>>]

\* no Workflow method has been called
NoCall == [op |-> "none"]

InitCommon ==
  /\ wf_metadata = [outline |-> None]
  /\ current_workflow = "None"
  /\ papers \in RegisteredPapers
  /\ papers_file = IF papers = <<>> THEN [state |-> "absent", data |-> <<>>]
                   ELSE [state |-> "written", data |-> papers]
  /\ file = [state |-> "absent", data |-> <<>>]
  /\ clock = 1
  /\ pc = "idle"
  /\ caller = "None"
  /\ i = 0
  /\ k = 0
  /\ analysis_results = <<>>
  /\ hres = NoOutcome
  /\ success = "None"
  /\ ret = "None"
  /\ calls = 0
  /\ handlerLog = <<>>
  /\ genLog = <<>>
  /\ snap = tasks
  /\ current_task_index = 0
  /\ out = NoCall

Init ==
  /\ tasks \in {BuildTasks(s) : s \in SeqsUpTo(InitialTasks, MaxTasks)}
  /\ InitCommon

\* ------------------------------------------------- the pieces of the code
\* GeminiClient.generate: the text of the response, or the exception raised
GenOutcomes ==
  {[ok |-> TRUE, text |-> r] : r \in Responses} \cup
  {[ok |-> FALSE, text |-> e] : e \in ProviderErrors}

\* Start without the assignment of IN_PROGRESS
StartLeavesStatus(task) == task

\* execute_task, before the try: the task is marked IN_PROGRESS
Start(task) == [task EXCEPT !.status = IN_PROGRESS]

\* OnSuccess that records the result and the time and leaves the status
OnSuccessLeavesStatus(task, text, now) ==
  [task EXCEPT !.result = Some(text), !.completed_at = Some(now)]

\* OnSuccess that keeps a status the handler has set
OnSuccessKeepsWaiting(task, text, now) ==
  [task EXCEPT !.result = Some(text),
               !.status = IF @ = WAITING_USER THEN @ ELSE COMPLETED,
               !.completed_at = Some(now)]

\* execute_task, the three assignments after the handler returned
OnSuccess(task, text, now) ==
  [task EXCEPT !.result = Some(text), !.status = COMPLETED,
               !.completed_at = Some(now)]

\* OnFailure that stores the bare message
OnFailureNoPrefix(task, msg) ==
  [task EXCEPT !.status = FAILED, !.result = Some(msg)]

\* OnFailure that marks the task COMPLETED
OnFailureMarksCompleted(task, msg) ==
  [task EXCEPT !.status = COMPLETED, !.result = Some(<<"Error: ">> \o msg)]

\* execute_task, the except branch: f"Error: {str(e)}"
OnFailure(task, msg) ==
  [task EXCEPT !.status = FAILED, !.result = Some(<<"Error: ">> \o msg)]

\* Acknowledge that stamps the time and leaves the status
AcknowledgeStampOnly(task, now) == [task EXCEPT !.completed_at = Some(now)]

\* run_workflow, after input() returned
Acknowledge(task, now) ==
  [task EXCEPT !.status = COMPLETED, !.completed_at = Some(now)]

\* NeedsUser that looks at the title instead of the status
NeedsUserByTitle(task) == Route(task.title) = "upload"

\* run_workflow, the test that sends a task to the operator instead of execute_task
NeedsUser(task) == task.status = WAITING_USER

\* AfterExecute that ends the run after the first executed task
AfterExecuteStopsAlways(succeeded) == "return False"

\* AfterExecute that goes on after a failure
AfterExecuteIgnoresFailure(succeeded) == "continue"

\* run_workflow, what the loop does with the value execute_task returned
AfterExecute(succeeded) == IF succeeded THEN "continue" ELSE "return False"

\* NextPosition that stays on the same task
NextPositionStays(pos) == pos

\* for i, task in enumerate(workflow.tasks): the position after pos
NextPosition(pos) == pos + 1

\* AfterSave that turns a failed save into the return value False
AfterSaveReturnsFalse(saved) == IF saved THEN "True" ELSE "False"

\* run_workflow, its last two statements: _save_workflow(workflow) outside any try,
\* then return True
AfterSave(saved) == IF saved THEN "True" ELSE "raised"

\* LoopStart that starts the loop at the workflow's cursor
LoopStartAtCursor == current_task_index + 1

\* enumerate(workflow.tasks): the loop starts at the first task
LoopStart == 1

\* the text _handle_paper_collection returns
CollectionResult(response) ==
  <<"Generated paper suggestions:">> \o response \o
  <<"Note: User needs to download and upload these papers.">>

\* the text _handle_paper_upload returns
UploadResult ==
  <<"Papers should be uploaded to: ", "output/papers", "Instructions:",
    "Once papers are uploaded, continue to the next task.">>

\* ForceWaiting that leaves the status alone
ForceWaitingSkipped(task) == task

\* _handle_paper_upload: task.status = TaskStatus.WAITING_USER
ForceWaiting(task) == [task EXCEPT !.status = WAITING_USER]

NoPapersResult == <<"No papers available for analysis. Please upload papers first.">>

\* f"### {paper.title}\n\n{analysis}"
AnalysisSection(title, analysis) == <<"### ", title>> \o analysis

\* f"### {paper.title}\n\nError analyzing paper: {e}"
ErrorSection(title, msg) == <<"### ", title, "Error analyzing paper: ">> \o msg

\* OnPaperError that records nothing for the paper
OnPaperErrorSkips(sections, title, msg) == sections

\* the except branch of the loop of _handle_paper_analysis
OnPaperError(sections, title, msg) == Append(sections, ErrorSection(title, msg))

\* "\n\n".join(analysis_results)
RECURSIVE JoinSections(_)
JoinSections(sections) ==
  IF sections = <<>> THEN <<>>
  ELSE IF Len(sections) = 1 THEN sections[1]
  ELSE sections[1] \o <<"[blank line]">> \o JoinSections(Tail(sections))

\* line.strip('- ').strip() for the lines that start with '-'
BulletTable == ("- resp_b" :> "resp_b")

\* the key_findings comprehension of _handle_paper_analysis
RECURSIVE KeyFindings(_)
KeyFindings(analysis) ==
  IF analysis = <<>> THEN <<>>
  ELSE IF Head(analysis) \in DOMAIN BulletTable
       THEN <<BulletTable[Head(analysis)]>> \o KeyFindings(Tail(analysis))
       ELSE KeyFindings(Tail(analysis))

\* key_findings[:5]
FirstFive(s) == IF Len(s) <= 5 THEN s ELSE SubSeq(s, 1, 5)

\* str.lower() on the titles of the papers
TitleLower == [P1 |-> "p1", p1 |-> "p1", P2 |-> "p2"]

\* PaperManager.get_paper_by_title: position of the first paper with that title, 0 if none
PaperByTitle(ps, title) ==
  IF \E j \in DOMAIN ps : TitleLower[ps[j].title] = TitleLower[title]
  THEN CHOOSE j \in DOMAIN ps :
         /\ TitleLower[ps[j].title] = TitleLower[title]
         /\ \A h \in 1..(j-1) : TitleLower[ps[h].title] # TitleLower[title]
  ELSE 0

\* PaperManager.update_paper_summary, the in-memory part
UpdatePaperSummary(ps, title, summary, key_findings) ==
  LET j == PaperByTitle(ps, title) IN
  IF j = 0 THEN ps
  ELSE [ps EXCEPT ![j] = [@ EXCEPT !.summary = Some(summary),
                                   !.key_findings = IF key_findings # <<>>
                                                    THEN key_findings ELSE @]]

\* Paper.to_dict, on the fields of the model
PaperToDict(paper) ==
  [title |-> paper.title, summary |-> paper.summary, key_findings |-> paper.key_findings]

\* Paper.from_dict: cls(**data)
PaperFromDict(data) ==
  [title |-> data.title, summary |-> data.summary, key_findings |-> data.key_findings]

\* PaperManager._save_metadata: written, or failed (the error is logged, not raised)
\* and the file is left stale or truncated
PapersFileAfterSave(old, ps) ==
  {[state |-> "written", data |-> [j \in DOMAIN ps |-> PaperToDict(ps[j])]],
   [state |-> "failed", data |-> <<>>],
   old}

\* PaperManager._load_metadata: no file, or one that does not parse, leaves the list empty
LoadMetadata(f) ==
  IF f.state = "written" THEN [j \in DOMAIN f.data |-> PaperFromDict(f.data[j])]
  ELSE <<>>

\* StoreOutline that keeps the first line of the outline only
StoreOutlineFirstLine(metadata, outline) ==
  [metadata EXCEPT !.outline = Some(<<Head(outline)>>)]

\* metadata['outline'] = outline, on the metadata of a workflow or of a task
StoreOutline(metadata, outline) == [metadata EXCEPT !.outline = Some(outline)]

\* WritingOutline that prefers the outline in the task's own metadata
WritingOutlineTaskFirst(task) ==
  IF IsSet(task.metadata.outline) THEN task.metadata.outline[1]
  ELSE IF current_workflow # "None" /\ IsSet(wf_metadata.outline)
  THEN wf_metadata.outline[1]
  ELSE <<>>

\* the outline _handle_writing puts into its request
WritingOutline(task) ==
  IF current_workflow # "None" /\ IsSet(wf_metadata.outline) THEN wf_metadata.outline[1]
  ELSE IF IsSet(task.metadata.outline) THEN task.metadata.outline[1]
  ELSE <<>>

\* DocumentGenerator.generate_all_formats: the paths by format
OutputFiles(timestamp) ==
  [md |-> <<"literature_review_", ToString(timestamp), ".md">>,
   docx |-> <<"literature_review_", ToString(timestamp), ".docx">>,
   pdf |-> <<"literature_review_", ToString(timestamp), ".pdf">>]

\* the text _handle_writing returns
WritingResult(files) ==
  <<"Literature review completed!", "Generated files:">> \o
  <<"- MD: ">> \o files.md \o <<"- DOCX: ">> \o files.docx \o <<"- PDF: ">> \o files.pdf

\* TaskStatus member names, as opposed to their values
StatusName ==
  [pending |-> "PENDING", in_progress |-> "IN_PROGRESS", completed |-> "COMPLETED",
   failed |-> "FAILED", waiting_user |-> "WAITING_USER"]

\* datetime.isoformat()
IsoFormat(t) == <<"iso", ToString(t)>>

\* TaskToDict that writes status.name instead of status.value
TaskToDictStatusName(task) ==
  [id |-> task.id, title |-> task.title, description |-> task.description,
   status |-> StatusName[task.status], result |-> task.result,
   created_at |-> IsoFormat(task.created_at),
   completed_at |-> IF IsSet(task.completed_at)
                    THEN Some(IsoFormat(task.completed_at[1])) ELSE None,
   metadata |-> task.metadata]

\* Task.to_dict
TaskToDict(task) ==
  [id |-> task.id, title |-> task.title, description |-> task.description,
   status |-> task.status, result |-> task.result,
   created_at |-> IsoFormat(task.created_at),
   completed_at |-> IF IsSet(task.completed_at)
                    THEN Some(IsoFormat(task.completed_at[1])) ELSE None,
   metadata |-> task.metadata]

\* the id, title and description the workflow of the model was created with
WorkflowId == "wf_1"
WorkflowTitle == "Literature Review"
WorkflowDescription == <<"topic">>

\* WorkflowToDict without the cursor
WorkflowToDictNoCursor ==
  [id |-> WorkflowId, title |-> WorkflowTitle, description |-> WorkflowDescription,
   tasks |-> [j \in DOMAIN tasks |-> TaskToDict(tasks[j])],
   created_at |-> IsoFormat(Epoch),
   metadata |-> wf_metadata]

\* Workflow.to_dict
WorkflowToDict ==
  [id |-> WorkflowId, title |-> WorkflowTitle, description |-> WorkflowDescription,
   tasks |-> [j \in DOMAIN tasks |-> TaskToDict(tasks[j])],
   current_task_index |-> current_task_index,
   created_at |-> IsoFormat(Epoch),
   metadata |-> wf_metadata]

\* ------------------------------------------------------------ the actions
\* groups of variables an action leaves alone
wfState == <<wf_metadata, current_workflow>>
store == <<papers, papers_file, file>>
analysisLocals == <<k, analysis_results>>
callState == <<caller, calls>>
results == <<success, ret>>
cursor == <<current_task_index, out>>

\* run_workflow is called: the workflow becomes the current one, the loop starts
RunWorkflow ==
  /\ pc = "idle"
  /\ calls < MaxCalls
  /\ calls' = calls + 1
  /\ current_workflow' = "wf"
  /\ caller' = "run"
  /\ i' = LoopStart
  /\ pc' = "loop"
  /\ success' = "None"
  /\ ret' = "None"
  /\ handlerLog' = <<>>
  /\ genLog' = <<>>
  /\ snap' = tasks
  /\ UNCHANGED <<cursor, tasks, wf_metadata, store, clock, analysisLocals, hres>>

\* execute_task is called by a client on one task of the workflow
ExecuteTask ==
  /\ pc = "idle"
  /\ calls < MaxCalls
  /\ \E j \in DOMAIN tasks :
       /\ i' = j
       /\ tasks' = [tasks EXCEPT ![j] = Start(@)]
  /\ calls' = calls + 1
  /\ caller' = "direct"
  /\ pc' = "exec"
  /\ success' = "None"
  /\ ret' = "None"
  /\ handlerLog' = <<>>
  /\ genLog' = <<>>
  /\ snap' = tasks
  /\ UNCHANGED <<cursor, wfState, store, clock, analysisLocals, hres>>

\* the loop reaches a task that is WAITING_USER: the prompt is printed, input() blocks
Prompt ==
  /\ pc = "loop"
  /\ i <= Len(tasks)
  /\ NeedsUser(tasks[i])
  /\ pc' = "await_input"
  /\ UNCHANGED <<cursor, tasks, wfState, store, clock, callState, i, results,
                 analysisLocals, hres, handlerLog, genLog, snap>>

\* the operator presses Enter
Ack ==
  /\ pc = "await_input"
  /\ tasks' = [tasks EXCEPT ![i] = Acknowledge(@, clock)]
  /\ clock' = clock + 1
  /\ snap' = [snap EXCEPT ![i] = tasks'[i]]
  /\ i' = NextPosition(i)
  /\ pc' = "loop"
  /\ UNCHANGED <<cursor, wfState, store, callState, results, analysisLocals, hres,
                 handlerLog, genLog>>

\* input() raises (EOFError on a closed stdin, KeyboardInterrupt): nothing catches it
InputRaises ==
  /\ pc = "await_input"
  /\ pc' = "idle"
  /\ ret' = "raised"
  /\ UNCHANGED <<cursor, tasks, wfState, store, clock, callState, i, success,
                 analysisLocals, hres, handlerLog, genLog, snap>>

\* the loop reaches any other task: execute_task is called and marks it IN_PROGRESS
Visit ==
  /\ pc = "loop"
  /\ i <= Len(tasks)
  /\ ~NeedsUser(tasks[i])
  /\ tasks' = [tasks EXCEPT ![i] = Start(@)]
  /\ pc' = "exec"
  /\ UNCHANGED <<cursor, wfState, store, clock, callState, i, results, analysisLocals,
                 hres, handlerLog, genLog, snap>>

\* the branch of the if / elif chain that is taken
Routed(h) ==
  /\ pc = "exec"
  /\ Route(tasks[i].title) = h
  /\ handlerLog' = Append(handlerLog, [task |-> i, handler |-> h])

\* self.gemini.generate(prompt) is called and returns or raises as g says
Request(h, prompt, g) ==
  genLog' = Append(genLog, [task |-> i, handler |-> h, prompt |-> prompt, ok |-> g.ok,
                            text |-> g.text])

HandlePaperCollection ==
  /\ Routed("collection")
  /\ \E g \in GenOutcomes :
       /\ Request("collection", <<>>, g)
       /\ IF g.ok
          THEN /\ tasks' = [tasks EXCEPT ![i].metadata.suggested_papers = Some(g.text)]
               /\ hres' = [ok |-> TRUE, text |-> CollectionResult(g.text)]
          ELSE /\ hres' = g
               /\ UNCHANGED tasks
  /\ pc' = "finish"
  /\ UNCHANGED <<cursor, wfState, store, clock, callState, i, results, analysisLocals, snap>>

HandlePaperUpload ==
  /\ Routed("upload")
  /\ tasks' = [tasks EXCEPT ![i] = ForceWaiting(@)]
  /\ hres' = [ok |-> TRUE, text |-> UploadResult]
  /\ pc' = "finish"
  /\ UNCHANGED <<cursor, wfState, store, clock, callState, i, results, analysisLocals,
                 genLog, snap>>

\* _handle_paper_analysis up to the loop over the papers
HandlePaperAnalysis ==
  /\ Routed("analysis")
  /\ IF papers = <<>>
     THEN /\ hres' = [ok |-> TRUE, text |-> NoPapersResult]
          /\ pc' = "finish"
          /\ UNCHANGED analysisLocals
     ELSE /\ k' = 1
          /\ analysis_results' = <<>>
          /\ pc' = "analyze"
          /\ UNCHANGED hres
  /\ UNCHANGED <<cursor, tasks, wfState, store, clock, callState, i, results, genLog, snap>>

\* one turn of the loop: one request, caught if it raises
AnalyzePaper ==
  /\ pc = "analyze"
  /\ k <= Len(papers)
  /\ \E g \in GenOutcomes :
       /\ Request("analysis", <<papers[k].title>>, g)
       /\ IF g.ok
          THEN /\ analysis_results' =
                    Append(analysis_results, AnalysisSection(papers[k].title, g.text))
               /\ papers' = UpdatePaperSummary(papers, papers[k].title, g.text,
                                               FirstFive(KeyFindings(g.text)))
               /\ papers_file' \in PapersFileAfterSave(papers_file, papers')
          ELSE /\ analysis_results' =
                    OnPaperError(analysis_results, papers[k].title, g.text)
               /\ UNCHANGED <<papers, papers_file>>
  /\ k' = k + 1
  /\ UNCHANGED <<cursor, tasks, wfState, file, clock, pc, callState, i, results, hres,
                 handlerLog, snap>>

\* _handle_paper_analysis after the loop
AnalysisDone ==
  /\ pc = "analyze"
  /\ k > Len(papers)
  /\ LET full_analysis == JoinSections(analysis_results) IN
       /\ tasks' = [tasks EXCEPT ![i].metadata.paper_analysis = Some(full_analysis)]
       /\ hres' = [ok |-> TRUE,
                   text |-> <<"Analyzed ", ToString(Len(papers)), " papers.">>
                            \o full_analysis]
  /\ pc' = "finish"
  /\ k' = 0
  /\ analysis_results' = <<>>
  /\ UNCHANGED <<cursor, wfState, store, clock, callState, i, results, handlerLog, genLog,
                 snap>>

HandleOutlineCreation ==
  /\ Routed("outline")
  /\ \E g \in GenOutcomes :
       /\ Request("outline", <<>>, g)
       /\ IF g.ok
          THEN /\ wf_metadata' = IF current_workflow # "None"
                                 THEN StoreOutline(wf_metadata, g.text)
                                 ELSE wf_metadata
               /\ tasks' = [tasks EXCEPT ![i].metadata = StoreOutline(@, g.text)]
               /\ hres' = g
          ELSE /\ hres' = g
               /\ UNCHANGED <<tasks, wf_metadata>>
  /\ pc' = "finish"
  /\ UNCHANGED <<cursor, current_workflow, store, clock, callState, i, results,
                 analysisLocals, snap>>

HandleWriting ==
  /\ Routed("writing")
  /\ \E g \in GenOutcomes :
       /\ Request("writing", WritingOutline(tasks[i]), g)
       /\ IF g.ok
          THEN \/ /\ tasks' = [tasks EXCEPT
                                ![i].metadata.output_files = Some(OutputFiles(clock)),
                                ![i].metadata.review_content = Some(g.text)]
                  /\ hres' = [ok |-> TRUE, text |-> WritingResult(OutputFiles(clock))]
                  /\ clock' = clock + 1
               \/ /\ \E e \in RenderErrors : hres' = [ok |-> FALSE, text |-> e]
                  /\ clock' = clock + 1
                  /\ UNCHANGED tasks
          ELSE /\ hres' = g
               /\ UNCHANGED <<tasks, clock>>
  /\ pc' = "finish"
  /\ UNCHANGED <<cursor, wfState, store, callState, i, results, analysisLocals, snap>>

HandleGenericTask ==
  /\ Routed("generic")
  /\ \E g \in GenOutcomes :
       /\ Request("generic", <<>>, g)
       /\ hres' = g
  /\ pc' = "finish"
  /\ UNCHANGED <<cursor, tasks, wfState, store, clock, callState, i, results,
                 analysisLocals, snap>>

\* execute_task returned to run_workflow: next task, or return False
Returned(succeeded) ==
  IF caller = "run" /\ AfterExecute(succeeded) = "continue"
  THEN /\ snap' = [snap EXCEPT ![i] = tasks'[i]]
       /\ i' = NextPosition(i)
       /\ pc' = "loop"
       /\ UNCHANGED ret
  ELSE /\ ret' = IF succeeded THEN "True" ELSE "False"
       /\ pc' = "idle"
       /\ UNCHANGED <<i, snap>>

\* the handler returned: execute_task records the result and returns True
TaskSucceeds ==
  /\ pc = "finish"
  /\ hres.ok
  /\ tasks' = [tasks EXCEPT ![i] = OnSuccess(@, hres.text, clock)]
  /\ clock' = clock + 1
  /\ success' = "True"
  /\ Returned(TRUE)
  /\ hres' = NoOutcome
  /\ UNCHANGED <<cursor, wfState, store, callState, analysisLocals, handlerLog, genLog>>

\* the handler raised: execute_task records the error and returns False
TaskFails ==
  /\ pc = "finish"
  /\ ~hres.ok
  /\ tasks' = [tasks EXCEPT ![i] = OnFailure(@, hres.text)]
  /\ success' = "False"
  /\ Returned(FALSE)
  /\ hres' = NoOutcome
  /\ UNCHANGED <<cursor, wfState, store, clock, callState, analysisLocals, handlerLog, genLog>>

\* the loop is over: _save_workflow, then return True. mkdir or open raises and the file
\* is as it was, or the dump is written whole, or writing stops part way; nothing
\* catches what _save_workflow raises
SaveAndReturn ==
  /\ pc = "loop"
  /\ i > Len(tasks)
  /\ \/ /\ file' = [state |-> "written", data |-> WorkflowToDict]
        /\ ret' = AfterSave(TRUE)
     \/ /\ file' = [state |-> "failed", data |-> <<>>]
        /\ ret' = AfterSave(FALSE)
     \/ /\ UNCHANGED file
        /\ ret' = AfterSave(FALSE)
  /\ pc' = "idle"
  /\ UNCHANGED <<cursor, tasks, wfState, papers, papers_file, clock, callState, i, success,
                 analysisLocals, hres, handlerLog, genLog, snap>>

Next ==
  \/ RunWorkflow
  \/ ExecuteTask
  \/ Prompt
  \/ Ack
  \/ InputRaises
  \/ Visit
  \/ HandlePaperCollection
  \/ HandlePaperUpload
  \/ HandlePaperAnalysis
  \/ AnalyzePaper
  \/ AnalysisDone
  \/ HandleOutlineCreation
  \/ HandleWriting
  \/ HandleGenericTask
  \/ TaskSucceeds
  \/ TaskFails
  \/ SaveAndReturn

Spec == Init /\ [][Next]_vars

TypeOK ==
  /\ \A j \in DOMAIN tasks : tasks[j].status \in TaskStatus
  /\ pc \in {"idle", "loop", "await_input", "exec", "analyze", "finish"}
  /\ ret \in {"None", "True", "False", "raised"}
  /\ success \in {"None", "True", "False"}
  /\ Len(snap) = Len(tasks)

\* ------------------------------------------ a run that is carried through
\* the steps run_workflow takes once it was called, with an operator who answers the
\* prompt: the code is one thread, and goes on until it returns
RunSteps ==
  \/ Prompt
  \/ Ack
  \/ Visit
  \/ HandlePaperCollection
  \/ HandlePaperUpload
  \/ HandlePaperAnalysis
  \/ AnalyzePaper
  \/ AnalysisDone
  \/ HandleOutlineCreation
  \/ HandleWriting
  \/ HandleGenericTask
  \/ TaskSucceeds
  \/ TaskFails
  \/ SaveAndReturn

NextRun == RunWorkflow \/ RunSteps

\* every prompt is answered and every handler call returns or raises; whether
\* run_workflow is called at all is up to the client
\* the workflows of Init that hold a task waiting for the user, with a paper
\* registered: a run over a workflow without one never prompts
InitLive ==
  /\ Init
  /\ papers # <<>>
  /\ \E j \in DOMAIN tasks : tasks[j].status = WAITING_USER

SpecLive == InitLive /\ [][NextRun]_vars /\ WF_vars(RunSteps)

\* ------------------------------------------- the router on arbitrary titles
\* words a title is drawn from when the router is explored: every keyword once, in
\* mixed case, and "Research", which contains "search"
RouteVocabulary ==
  {"Collect", "SEARCH", "Upload", "Download", "Analyze", "Read", "Outline",
   "Structure", "WRITE", "Review", "Research"}

\* a workflow of one task whose title is any combination of these words
InitRoute ==
  /\ \E t \in SUBSET RouteVocabulary, s \in InitialStatuses :
       tasks = <<NewTask(TaskId(1), t, Description(t), s)>>
  /\ InitCommon

SpecRoute == InitRoute /\ [][Next]_vars

\* ---------------------------------------------- the analysis of many papers
MaxPapers == 2

\* titles of the papers a client registered; two papers may have the same title
PaperTitles == {"P1", "P2"}

\* one task for the Analyze handler, and any list of registered papers
InitAnalyze ==
  /\ tasks = BuildTasks(<<<<{"Analyze", "Papers"}, PENDING>>>>)
  /\ papers \in {[m \in DOMAIN s |-> NewPaper(s[m])] : s \in SeqsUpTo(PaperTitles, MaxPapers)}
  /\ papers_file = IF papers = <<>> THEN [state |-> "absent", data |-> <<>>]
                   ELSE [state |-> "written", data |-> papers]
  /\ wf_metadata = [outline |-> None]
  /\ current_workflow = "None"
  /\ file = [state |-> "absent", data |-> <<>>]
  /\ clock = 1
  /\ pc = "idle"
  /\ caller = "None"
  /\ i = 0
  /\ k = 0
  /\ analysis_results = <<>>
  /\ hres = NoOutcome
  /\ success = "None"
  /\ ret = "None"
  /\ calls = 0
  /\ handlerLog = <<>>
  /\ genLog = <<>>
  /\ snap = tasks
  /\ current_task_index = 0
  /\ out = NoCall

\* the steps such a workflow can take: the Analyze handler does not raise
NextAnalyze ==
  \/ RunWorkflow
  \/ ExecuteTask
  \/ Visit
  \/ HandlePaperAnalysis
  \/ AnalyzePaper
  \/ AnalysisDone
  \/ TaskSucceeds
  \/ SaveAndReturn

SpecAnalyze == InitAnalyze /\ [][NextAnalyze]_vars

\* ------------------------------------------------ the methods of Workflow
\* what the agent holds, which no method of Workflow touches
agentState == <<wf_metadata, current_workflow, papers, papers_file, clock, pc, caller,
                i, k, analysis_results, hres, success, ret, calls, handlerLog, genLog>>

\* any(...) over a list of booleans
RECURSIVE AnyTrue(_)
AnyTrue(flags) == IF flags = <<>> THEN FALSE ELSE Head(flags) \/ AnyTrue(Tail(flags))

\* all(...) over a list of booleans, left to right; True for the empty list
RECURSIVE All(_)
All(flags) == IF flags = <<>> THEN TRUE ELSE Head(flags) /\ All(Tail(flags))

\* the generator is_complete hands to all()
CompletedFlags(ts) == [j \in DOMAIN ts |-> ts[j].status = COMPLETED]

\* CanAdvance that lets the cursor step past the last task
CanAdvanceToEnd(index, n) == index < n

\* the test of next_task
CanAdvance(index, n) == index < n - 1

\* AppendTask that drops a task whose id is already in the list
AppendTaskUnlessKnown(ts, task) ==
  IF \E j \in DOMAIN ts : ts[j].id = task.id THEN ts ELSE Append(ts, task)

\* self.tasks.append(task)
AppendTask(ts, task) == Append(ts, task)

\* the tasks a client constructs and adds: any status, ids that may repeat
ClientTasks ==
  {NewTask(TaskId(n), {"Collect", "Papers"}, Description({"Collect", "Papers"}), s) :
     n \in 1..2, s \in TaskStatus}

\* workflow.add_task(task); returns None
AddTask(task) ==
  /\ pc = "idle"
  /\ Len(tasks) < MaxTasks
  /\ tasks' = AppendTask(tasks, task)
  /\ snap' = tasks'
  /\ out' = [op |-> "add_task", value |-> None]
  /\ UNCHANGED <<agentState, file, current_task_index>>

\* workflow.get_current_task(); the cursor counts from 0, the sequence from 1
GetCurrentTask ==
  /\ pc = "idle"
  /\ out' = [op |-> "get_current_task",
             value |-> IF 0 <= current_task_index /\ current_task_index < Len(tasks)
                       THEN Some(tasks[current_task_index + 1]) ELSE None]
  /\ UNCHANGED <<agentState, file, tasks, snap, current_task_index>>

\* workflow.next_task()
NextTask ==
  /\ pc = "idle"
  /\ IF CanAdvance(current_task_index, Len(tasks))
     THEN /\ current_task_index' = current_task_index + 1
          /\ out' = [op |-> "next_task", value |-> TRUE]
     ELSE /\ out' = [op |-> "next_task", value |-> FALSE]
          /\ UNCHANGED current_task_index
  /\ UNCHANGED <<agentState, file, tasks, snap>>

\* workflow.is_complete()
IsComplete ==
  /\ pc = "idle"
  /\ out' = [op |-> "is_complete", value |-> All(CompletedFlags(tasks))]
  /\ UNCHANGED <<agentState, file, tasks, snap, current_task_index>>

NextWorkflow ==
  \/ \E task \in ClientTasks : AddTask(task)
  \/ GetCurrentTask
  \/ NextTask
  \/ IsComplete

\* Workflow(id, title, description): no tasks, the cursor at 0
InitWorkflow ==
  /\ tasks = <<>>
  /\ InitCommon

\* a newly created Workflow and any sequence of calls of its methods
SpecWorkflow == InitWorkflow /\ [][NextWorkflow]_vars

\* ------------------------------------------------- snapshots: save and load
\* the instants a timestamp of the model can be
Instants == 0..(2 * MaxTasks * MaxCalls + 1)

\* datetime.fromisoformat: the instant that text is the format of, if it is one
FromIsoFormat(text) ==
  IF \E t \in Instants : IsoFormat(t) = text
  THEN Some(CHOOSE t \in Instants : IsoFormat(t) = text)
  ELSE None

\* StatusOfValue that takes an unknown tag for PENDING
StatusOfValueOrPending(value) ==
  IF value \in TaskStatus THEN Some(value) ELSE Some(PENDING)

\* TaskStatus(value): the member with that value (the model names a member by its
\* value), None for the ValueError raised when there is none
StatusOfValue(value) ==
  IF \E member \in TaskStatus : member = value
  THEN Some(CHOOSE member \in TaskStatus : member = value)
  ELSE None

\* what a call that can raise returns: a value, or the error raised
Returns(value) == [ok |-> TRUE, value |-> value, error |-> <<>>]
Raises(error) == [ok |-> FALSE, value |-> None, error |-> error]

\* Task.from_dict: status first, then the two timestamps, then Task(**data)
FromDict(data) ==
  IF StatusOfValue(data.status) = None
  THEN Raises(<<"ValueError: ", data.status, " is not a valid TaskStatus">>)
  ELSE IF FromIsoFormat(data.created_at) = None
  THEN Raises(<<"ValueError: Invalid isoformat string">>)
  ELSE IF IsSet(data.completed_at) /\ FromIsoFormat(data.completed_at[1]) = None
  THEN Raises(<<"ValueError: Invalid isoformat string">>)
  ELSE Returns([id |-> data.id, title |-> data.title,
                description |-> data.description,
                status |-> StatusOfValue(data.status)[1],
                result |-> data.result,
                created_at |-> FromIsoFormat(data.created_at)[1],
                completed_at |-> IF IsSet(data.completed_at)
                                 THEN FromIsoFormat(data.completed_at[1])
                                 ELSE None,
                metadata |-> data.metadata])

\* [Task.from_dict(task_data) for task_data in data['tasks']]: the first record that
\* raises ends the comprehension
RECURSIVE TasksFromDicts(_)
TasksFromDicts(records) ==
  IF records = <<>> THEN Returns(<<>>)
  ELSE LET first == FromDict(Head(records)) IN
       IF ~first.ok THEN first
       ELSE LET rest == TasksFromDicts(Tail(records)) IN
            IF ~rest.ok THEN rest
            ELSE Returns(<<first.value>> \o rest.value)

\* Workflow.load on what the file holds; json.load gives back what json.dump was given
WorkflowLoad(f) ==
  IF f.state = "absent" THEN Raises(<<"FileNotFoundError">>)
  ELSE IF f.state = "failed" THEN Raises(<<"JSONDecodeError">>)
  ELSE IF FromIsoFormat(f.data.created_at) = None
  THEN Raises(<<"ValueError: Invalid isoformat string">>)
  ELSE LET loaded == TasksFromDicts(f.data.tasks) IN
       IF ~loaded.ok THEN loaded
       ELSE Returns([id |-> f.data.id, title |-> f.data.title,
                     description |-> f.data.description,
                     tasks |-> loaded.value,
                     current_task_index |->
                       IF "current_task_index" \in DOMAIN f.data
                       THEN f.data.current_task_index ELSE 0,
                     created_at |-> FromIsoFormat(f.data.created_at)[1],
                     metadata |-> f.data.metadata])

\* the task a client adds at position n: any status, or one that was executed
StoreTasks(n) ==
  LET title == {"Collect", "Papers"} IN
  {NewTask(TaskId(n), title, Description(title), s) : s \in TaskStatus} \cup
  {OnSuccess(NewTask(TaskId(n), title, Description(title), PENDING), <<"resp_a">>, 1)}

\* status tags no member of TaskStatus has: a foreign word, and a member's name
UnknownTags == {"done", "PENDING"}

\* task records of a snapshot this program did not write
ForeignRecords ==
  LET title == {"Collect", "Papers"} IN
  {[TaskToDict(NewTask(TaskId(1), title, Description(title), PENDING))
      EXCEPT !.status = tag] : tag \in UnknownTags \cup {COMPLETED}}

\* what the snapshot file holds before the first save: nothing, or a snapshot of up
\* to two such records
InitialFiles ==
  {[state |-> "absent", data |-> <<>>]} \cup
  {[state |-> "written",
    data |-> [id |-> "wf_0", title |-> "Earlier", description |-> <<"topic">>,
              tasks |-> records, current_task_index |-> 0,
              created_at |-> IsoFormat(Epoch), metadata |-> [outline |-> None]]] :
     records \in [1..1 -> ForeignRecords] \cup [1..2 -> ForeignRecords]}

\* workflow.save(filepath): open(filepath, 'w') raises and the file is as it was, or
\* the dump is written whole, or writing stops part way and what is left does not parse
Save ==
  /\ pc = "idle"
  /\ \/ /\ file' = [state |-> "written", data |-> WorkflowToDict]
        /\ out' = [op |-> "save", result |-> Returns(None)]
     \/ /\ file' = [state |-> "failed", data |-> <<>>]
        /\ out' = [op |-> "save", result |-> Raises(<<"OSError">>)]
     \/ /\ UNCHANGED file
        /\ out' = [op |-> "save", result |-> Raises(<<"PermissionError">>)]
  /\ UNCHANGED <<agentState, tasks, snap, current_task_index>>

\* Workflow.load(filepath)
Load ==
  /\ pc = "idle"
  /\ out' = [op |-> "load", result |-> WorkflowLoad(file)]
  /\ UNCHANGED <<agentState, file, tasks, snap, current_task_index>>

\* Task.from_dict(data) on one record of the file
TaskFromDict ==
  /\ pc = "idle"
  /\ file.state = "written"
  /\ \E j \in DOMAIN file.data.tasks :
       out' = [op |-> "from_dict", data |-> file.data.tasks[j],
               result |-> FromDict(file.data.tasks[j])]
  /\ UNCHANGED <<agentState, file, tasks, snap, current_task_index>>

NextStore ==
  \/ \E task \in StoreTasks(Len(tasks) + 1) : AddTask(task)
  \/ NextTask
  \/ Save
  \/ Load
  \/ TaskFromDict

\* a new Workflow beside a snapshot file that may exist already
InitStore ==
  /\ tasks = <<>>
  /\ wf_metadata = [outline |-> None]
  /\ current_workflow = "None"
  /\ papers = <<>>
  /\ papers_file = [state |-> "absent", data |-> <<>>]
  /\ file \in InitialFiles
  /\ clock = 1
  /\ pc = "idle"
  /\ caller = "None"
  /\ i = 0
  /\ k = 0
  /\ analysis_results = <<>>
  /\ hres = NoOutcome
  /\ success = "None"
  /\ ret = "None"
  /\ calls = 0
  /\ handlerLog = <<>>
  /\ genLog = <<>>
  /\ snap = tasks
  /\ current_task_index = 0
  /\ out = NoCall

SpecStore == InitStore /\ [][NextStore]_vars

\* -------------------------------------------------------------- the claims
\* C1: a task's completed_at is set if and only if its status is Completed, in every
\* state reachable by run_workflow and execute_task calls, repeated calls included
C1_CompletedAtIffCompleted ==
  \A j \in DOMAIN tasks :
    IsSet(tasks[j].completed_at) <=> tasks[j].status = COMPLETED

\* C2: a task's result is set if and only if its status is Completed or Failed; a task
\* completed by the operator's acknowledgement has a result
C2_ResultIffFinished ==
  \A j \in DOMAIN tasks :
    IsSet(tasks[j].result) <=> tasks[j].status \in {COMPLETED, FAILED}

\* C3: when the handler raised, execute_task does not propagate the exception: it
\* returns False, the task is Failed, its result is "Error: " followed by the message,
\* and completed_at is what it was before the call
C3_HandlerRaises ==
  [][(pc = "finish" /\ ~hres.ok) =>
       /\ success' = "False"
       /\ ret' # "raised"
       /\ (caller = "direct" => pc' = "idle" /\ ret' = "False")
       /\ tasks'[i].status = FAILED
       /\ IsSet(tasks'[i].result)
       /\ Head(tasks'[i].result[1]) = "Error: "
       /\ Tail(tasks'[i].result[1]) = hres.text
       /\ tasks'[i].completed_at = snap[i].completed_at]_vars

\* a call of execute_task failed on a task that had been completed before
C3_Witness ==
  /\ pc = "idle"
  /\ success = "False"
  /\ tasks[i].status = FAILED
  /\ IsSet(tasks[i].completed_at)
  /\ tasks[i].result = Some(<<"Error: ", "quota exceeded">>)

\* C4: when the handler returned, whichever of the six it is, execute_task returns True,
\* the result is the text the handler returned, the task is Completed and completed_at
\* is set; execute_task returns True exactly when the task ends Completed and False
\* exactly when it ends Failed
C4_HandlerReturns ==
  [][/\ (pc = "finish" /\ hres.ok) =>
          /\ success' = "True"
          /\ (caller = "direct" => pc' = "idle" /\ ret' = "True")
          /\ tasks'[i].result = Some(hres.text)
          /\ tasks'[i].status = COMPLETED
          /\ tasks'[i].completed_at = Some(clock)
     /\ (pc = "finish" /\ pc' # "finish") =>
          /\ Route(tasks[i].title) \in Handlers
          /\ success' = "True" <=> tasks'[i].status = COMPLETED
          /\ success' = "False" <=> tasks'[i].status = FAILED
          /\ success' \in {"True", "False"}]_vars

\* execute_task returned True for a task the Upload handler had set WAITING_USER
C4_Witness ==
  /\ success = "True"
  /\ handlerLog # <<>>
  /\ handlerLog[Len(handlerLog)].handler = "upload"
  /\ LET j == handlerLog[Len(handlerLog)].task IN
       /\ tasks[j].status = COMPLETED
       /\ tasks[j].result = Some(UploadResult)
       /\ IsSet(tasks[j].completed_at)

\* C5 (as stated): whichever handler a task is routed to, if the generation collaborator
\* raised while run_workflow was executing the task, the task ends Failed with a result
\* beginning with "Error: " and run_workflow returns False
C5_AnyHandlerGenerationFailure ==
  (caller = "run" /\ pc = "idle") =>
    \A n \in DOMAIN genLog :
      ~genLog[n].ok =>
        /\ ret = "False"
        /\ tasks[genLog[n].task].status = FAILED
        /\ IsSet(tasks[genLog[n].task].result)
        /\ Head(tasks[genLog[n].task].result[1]) = "Error: "

\* C5 (amended): for a task routed to the Collect, Outline, Write or Generic handler, a
\* raising generation request goes to the except branch of execute_task, the task ends
\* Failed with a result beginning with "Error: " and run_workflow returns False; the
\* Upload handler issues no request; a request that raises inside the Analyze handler is
\* caught there and the task ends Completed
C5_GenerationFailure ==
  caller = "run" =>
    \A n \in DOMAIN genLog :
      LET e == genLog[n] IN
        /\ e.handler # "upload"
        /\ e.handler = Route(tasks[e.task].title)
        /\ (~e.ok /\ e.handler \in {"collection", "outline", "writing", "generic"}) =>
             \/ pc = "finish" /\ i = e.task /\ ~hres.ok /\ n = Len(genLog)
             \/ /\ pc = "idle"
                /\ ret = "False"
                /\ i = e.task
                /\ tasks[e.task].status = FAILED
                /\ IsSet(tasks[e.task].result)
                /\ Head(tasks[e.task].result[1]) = "Error: "
        /\ (~e.ok /\ e.handler = "analysis") =>
             /\ tasks[e.task].status \in {IN_PROGRESS, COMPLETED}
             /\ pc = "idle" => tasks[e.task].status = COMPLETED
             /\ pc = "idle" /\ ret = "False" => i # e.task

\* a run ended on a Write task whose generation request raised
C5_Witness ==
  /\ caller = "run"
  /\ pc = "idle"
  /\ ret = "False"
  /\ genLog # <<>>
  /\ ~genLog[Len(genLog)].ok
  /\ genLog[Len(genLog)].handler = "writing"
  /\ tasks[i].status = FAILED

\* C6: when execute_task reports failure for the task at position i, the run stops at
\* once and returns False; no later task is visited or changed in any field, and every
\* earlier task is Completed and is as it was when its visit finished
C6_FailureStopsRun ==
  (caller = "run" /\ success = "False") =>
    /\ pc = "idle"
    /\ ret = "False"
    /\ tasks[i].status = FAILED
    /\ \A j \in DOMAIN tasks :
         /\ j > i => tasks[j] = snap[j]
         /\ j > i => \A n \in DOMAIN handlerLog : handlerLog[n].task # j
         /\ j > i => \A n \in DOMAIN genLog : genLog[n].task # j
         /\ j < i => tasks[j].status = COMPLETED /\ tasks[j] = snap[j]

\* a run failed on its first task and a second task is still as constructed
C6_Witness ==
  /\ caller = "run"
  /\ calls = 1
  /\ ret = "False"
  /\ i = 1
  /\ Len(tasks) = 2
  /\ tasks[2] \in {NewTask(TaskId(2), t, Description(t), PENDING) : t \in WorkflowTitles}

\* C7: a task that is WAITING_USER when the loop reaches it is not passed to
\* execute_task: it does not become IN_PROGRESS, no handler runs and no generation
\* request is issued for it, it stays WAITING_USER while the run waits, and the
\* acknowledgement makes it Completed with completed_at set and moves to the next task
C7_WaitingUserBypassesExecutor ==
  [][/\ (pc = "loop" /\ i <= Len(tasks) /\ tasks[i].status = WAITING_USER) =>
          pc' = "await_input" /\ tasks' = tasks /\ i' = i
     /\ pc = "await_input" =>
          /\ tasks[i].status = WAITING_USER
          /\ \A n \in DOMAIN handlerLog : handlerLog[n].task # i
          /\ \A n \in DOMAIN genLog : genLog[n].task # i
          /\ handlerLog' = handlerLog /\ genLog' = genLog
          /\ \/ /\ pc' = "loop"
                /\ i' = i + 1
                /\ tasks'[i].status = COMPLETED
                /\ tasks'[i].completed_at = Some(clock)
                /\ \A j \in DOMAIN tasks : j # i => tasks'[j] = tasks[j]
             \/ pc' = "idle" /\ ret' = "raised" /\ tasks' = tasks
     /\ (caller = "run" /\ caller' = "run") =>
          \A j \in DOMAIN tasks :
            (j < i /\ \A n \in DOMAIN handlerLog : handlerLog[n].task # j) =>
               /\ tasks[j].status = COMPLETED
               /\ tasks'[j] = tasks[j]
               /\ \A n \in DOMAIN genLog' : genLog'[n].task # j]_vars

\* the run went past an acknowledged task and is executing the next one
C7_Witness ==
  /\ caller = "run"
  /\ i = 2
  /\ pc = "finish"
  /\ handlerLog = <<[task |-> 2, handler |-> Route(tasks[2].title)]>>
  /\ tasks[1].status = COMPLETED
  /\ IsSet(tasks[1].completed_at)
  /\ snap[1].status = COMPLETED

\* C8: run_workflow returns True only after the snapshot was saved, and the save comes
\* after the last task's final transition: the saved snapshot shows every task
\* Completed, with its final result
C8_SavedBeforeTrue ==
  (caller = "run" /\ pc = "idle" /\ ret = "True") =>
    /\ file.state = "written"
    /\ Len(file.data.tasks) = Len(tasks)
    /\ \A j \in DOMAIN tasks :
         /\ tasks[j].status = COMPLETED
         /\ file.data.tasks[j].status = COMPLETED
         /\ file.data.tasks[j].result = tasks[j].result
         /\ file.data.tasks[j].metadata = tasks[j].metadata

\* a run of two tasks returned True, one executed and one acknowledged
C8_Witness ==
  /\ caller = "run"
  /\ pc = "idle"
  /\ ret = "True"
  /\ Len(tasks) = 2
  /\ Len(handlerLog) = 1
  /\ file.state = "written"

\* the keywords a word contains, whatever its case
KeywordsOfWord ==
  [Collect |-> {"collect"}, Search |-> {"search"}, SEARCH |-> {"search"},
   Upload |-> {"upload"}, Download |-> {"download"}, Analyze |-> {"analyze"},
   Read |-> {"read"}, Outline |-> {"outline"}, Structure |-> {"structure"},
   Write |-> {"write"}, WRITE |-> {"write"}, Review |-> {"review"},
   Research |-> {"search"}, Papers |-> {}, Create |-> {}, Summarize |-> {},
   Findings |-> {}]

KeywordGroups ==
  <<{"collect", "search"}, {"upload", "download"}, {"analyze", "read"},
    {"outline", "structure"}, {"write", "review"}>>

GroupHandler == <<"collection", "upload", "analysis", "outline", "writing">>

\* the handler of the earliest group one of whose keywords occurs in the title
EarliestGroupHandler(title) ==
  LET present == UNION {KeywordsOfWord[w] : w \in title}
      matching == {g \in DOMAIN KeywordGroups : KeywordGroups[g] \cap present # {}}
  IN  IF matching = {} THEN "generic"
      ELSE GroupHandler[CHOOSE g \in matching : \A h \in matching : g <= h]

\* C9: for every combination of keywords in a title, in any case, execute_task invokes
\* exactly one handler, the one of the earliest matching group in the order
\* collect/search, upload/download, analyze/read, outline/structure, write/review,
\* otherwise Generic
C9_FirstMatchWins ==
  /\ \A m, n \in DOMAIN handlerLog :
       handlerLog[m].task = handlerLog[n].task => m = n
  /\ \A n \in DOMAIN handlerLog :
       handlerLog[n].handler = EarliestGroupHandler(tasks[handlerLog[n].task].title)
  /\ pc \in {"analyze", "finish"} =>
       \E n \in DOMAIN handlerLog : handlerLog[n].task = i
  /\ success # "None" => handlerLog # <<>>

\* a title with "search" and "write" in it was routed to the Collect handler
C9_Witness ==
  /\ pc = "finish"
  /\ tasks[i].title = {"SEARCH", "WRITE"}
  /\ handlerLog = <<[task |-> i, handler |-> "collection"]>>

C11_TerminalStatuses ==
  [][caller' = "run" =>
       \A j \in DOMAIN tasks :
         tasks[j].status \in {COMPLETED, FAILED} =>
           tasks'[j].status = tasks[j].status]_vars

\* C12 (as stated): WAITING_USER is never a final state of a run: with every prompt
\* acknowledged and every handler call returning or raising, every task that is
\* WAITING_USER when run_workflow starts is eventually Completed, so is Completed when
\* the run has returned; and while the run waits for the acknowledgement no status
\* changes
C12_WaitingAlwaysCompleted ==
  /\ []((caller = "run" /\ pc = "idle") =>
          \A j \in DOMAIN tasks :
            snap[j].status = WAITING_USER => tasks[j].status = COMPLETED)
  /\ \A j \in 1..MaxTasks :
       (caller = "run" /\ pc = "loop" /\ i = 1 /\ j \in DOMAIN tasks
          /\ tasks[j].status = WAITING_USER)
       ~> (j \in DOMAIN tasks /\ tasks[j].status = COMPLETED)
  /\ [][pc = "await_input" /\ pc' = "await_input" => tasks' = tasks]_vars

\* C12 (amended): a task that is WAITING_USER when run_workflow starts is eventually
\* Completed, or the run stops with False on an earlier task that failed and the task
\* is left as it is; every prompt the run issues is followed by that task being
\* Completed; the step that ends the wait changes the status of the prompted task only
C12_WaitingResolvedOrRunFailed ==
  /\ []((caller = "run" /\ pc = "idle") =>
          \A j \in DOMAIN tasks :
            tasks[j].status = WAITING_USER =>
              ret = "False" /\ i < j /\ snap[j].status = WAITING_USER)
  /\ \A j \in 1..MaxTasks :
       (caller = "run" /\ pc = "loop" /\ i = 1 /\ j \in DOMAIN tasks
          /\ tasks[j].status = WAITING_USER)
       ~> (j \in DOMAIN tasks
            /\ \/ tasks[j].status = COMPLETED
               \/ pc = "idle" /\ ret = "False" /\ i < j /\ tasks[j].status = WAITING_USER)
  /\ \A j \in 1..MaxTasks :
       (pc = "await_input" /\ i = j) ~> (j \in DOMAIN tasks /\ tasks[j].status = COMPLETED)
  /\ [][pc = "await_input" =>
          \A j \in DOMAIN tasks : j # i => tasks'[j].status = tasks[j].status]_vars

\* a run executed its first task, waited for the second and returned True: the second
\* task is Completed without a result, and no handler ran for it
C12_Witness ==
  /\ caller = "run"
  /\ pc = "idle"
  /\ ret = "True"
  /\ Len(tasks) = 2
  /\ handlerLog # <<>>
  /\ \A n \in DOMAIN handlerLog : handlerLog[n].task = 1
  /\ tasks[2].status = COMPLETED
  /\ tasks[2].result = None
  /\ IsSet(tasks[2].completed_at)

\* C13: for every workflow, the empty one included, is_complete() returns True if and
\* only if every task is Completed, returns False as soon as one task is Pending,
\* InProgress, Failed or WaitingUser, and changes no state
C13_IsCompleteIffAllCompleted ==
  /\ [](out.op = "is_complete" =>
          /\ out.value = TRUE <=> \A j \in DOMAIN tasks : tasks[j].status = COMPLETED
          /\ (\E j \in DOMAIN tasks :
                tasks[j].status \in {PENDING, IN_PROGRESS, FAILED, WAITING_USER})
               => out.value = FALSE
          /\ tasks = <<>> => out.value = TRUE)
  /\ [][out'.op = "is_complete" =>
          /\ tasks' = tasks
          /\ current_task_index' = current_task_index
          /\ file' = file]_vars

\* is_complete() returned False for a workflow whose first task is Completed and whose
\* second task is Failed
C13_Witness ==
  /\ out = [op |-> "is_complete", value |-> FALSE]
  /\ Len(tasks) = 2
  /\ tasks[1].status = COMPLETED
  /\ tasks[2].status = FAILED

\* C14 (as stated): next_task() returns False and leaves the cursor where it is when the
\* cursor is at the last index, len(tasks) - 1; in every other case, a workflow with no
\* tasks included, it returns True and moves the cursor on by exactly 1
C14_AdvanceUnlessAtLastIndex ==
  [][(out'.op = "next_task" /\ vars' # vars) =>
       /\ tasks' = tasks
       /\ IF current_task_index = Len(tasks) - 1
          THEN out'.value = FALSE /\ current_task_index' = current_task_index
          ELSE out'.value = TRUE /\ current_task_index' = current_task_index + 1]_vars

\* C14 (amended): next_task() returns False and leaves the cursor where it is when the
\* cursor is at the last index or the workflow has no tasks (current_task_index >=
\* len(tasks) - 1); otherwise it returns True and moves the cursor on by exactly 1
C14_AdvanceWhileTasksRemain ==
  [][(out'.op = "next_task" /\ vars' # vars) =>
       /\ tasks' = tasks
       /\ IF tasks = <<>> \/ current_task_index = Len(tasks) - 1
          THEN out'.value = FALSE /\ current_task_index' = current_task_index
          ELSE /\ out'.value = TRUE
               /\ current_task_index' = current_task_index + 1
               /\ current_task_index' <= Len(tasks) - 1]_vars

\* next_task() returned False on a workflow with no tasks, the cursor still at 0
C14_Witness ==
  /\ tasks = <<>>
  /\ out = [op |-> "next_task", value |-> FALSE]
  /\ current_task_index = 0

\* C15: after any sequence of add_task and next_task calls on a new Workflow,
\* 0 <= current_task_index <= len(tasks); get_current_task() returns the task at the
\* cursor when the cursor is in range and None otherwise, which happens only for a
\* workflow with no tasks; add_task appends at the end, leaves the cursor and the order
\* of the tasks alone, and takes a task whose id is already in the workflow
C15_CursorInRange ==
  /\ [](/\ 0 <= current_task_index
        /\ current_task_index <= Len(tasks)
        /\ out.op = "get_current_task" =>
             /\ current_task_index < Len(tasks) =>
                  out.value = Some(tasks[current_task_index + 1])
             /\ current_task_index >= Len(tasks) => out.value = None
             /\ out.value = None => tasks = <<>>
        /\ \A task \in ClientTasks : Len(tasks) < MaxTasks => ENABLED AddTask(task))
  /\ [][(out'.op = "add_task" /\ vars' # vars) =>
          /\ current_task_index' = current_task_index
          /\ Len(tasks') = Len(tasks) + 1
          /\ SubSeq(tasks', 1, Len(tasks)) = tasks
          /\ tasks'[Len(tasks')] \in ClientTasks]_vars

\* two tasks with the same id were added, the cursor moved to the second one and
\* get_current_task() returned it
C15_Witness ==
  /\ Len(tasks) = 2
  /\ tasks[1].id = tasks[2].id
  /\ tasks[1].status # tasks[2].status
  /\ current_task_index = 1
  /\ out = [op |-> "get_current_task", value |-> Some(tasks[2])]

\* to_dict followed by from_dict gives every task back, field for field
RoundTripExact ==
  \A j \in DOMAIN tasks : FromDict(TaskToDict(tasks[j])) = Returns(tasks[j])

\* C16: for every task the program holds, Task.from_dict(task.to_dict()) is equal to the
\* task in every field, and in the serialized record completed_at is null exactly when
\* the status is not Completed
C16_TaskRoundTrip ==
  \A j \in DOMAIN tasks :
    /\ RoundTripExact
    /\ TaskToDict(tasks[j]).completed_at = None <=> tasks[j].status # COMPLETED

\* C17: after workflow.save(path), Workflow.load(path) gives a workflow with the same id
\* and title, the same tasks in the same order with the same ids and statuses, and the
\* same current_task_index; save replaces whatever the file held, so what is loaded
\* depends on the most recent save alone
C17_SaveThenLoad ==
  /\ [][(out'.op = "save" /\ out'.result.ok) =>
          LET loaded == WorkflowLoad(file') IN
            /\ loaded.ok
            /\ loaded.value.id = WorkflowId
            /\ loaded.value.title = WorkflowTitle
            /\ Len(loaded.value.tasks) = Len(tasks)
            /\ \A j \in DOMAIN tasks :
                 /\ loaded.value.tasks[j].id = tasks[j].id
                 /\ loaded.value.tasks[j].status = tasks[j].status
                 /\ loaded.value.tasks[j] = tasks[j]
            /\ loaded.value.current_task_index = current_task_index
            /\ tasks' = tasks
            /\ current_task_index' = current_task_index]_vars
  /\ []((out.op = "load" /\ out.result.ok) =>
          /\ file.state = "written"
          /\ Len(out.result.value.tasks) = Len(file.data.tasks)
          /\ out.result.value.id = file.data.id
          /\ out.result.value.title = file.data.title
          /\ \A j \in DOMAIN file.data.tasks :
               /\ out.result.value.tasks[j].id = file.data.tasks[j].id
               /\ out.result.value.tasks[j].status = file.data.tasks[j].status)

\* a workflow of two tasks with the cursor on the second was saved and loaded back
C17_Witness ==
  /\ out.op = "load"
  /\ out.result.ok
  /\ out.result.value.id = WorkflowId
  /\ Len(out.result.value.tasks) = 2
  /\ out.result.value.tasks[1].status = COMPLETED
  /\ out.result.value.tasks[2].status = WAITING_USER
  /\ out.result.value.current_task_index = 1

\* C18: Task.from_dict raises and yields no Task whenever the record's status is not
\* one of the five tags; Workflow.load of a snapshot with such a record raises the error
\* of the first offending record and returns no Workflow
C18_UnknownStatusRejected ==
  /\ out.op = "from_dict" =>
       /\ out.data.status \notin {"pending", "in_progress", "completed", "failed",
                                  "waiting_user"}
            => /\ ~out.result.ok
               /\ out.result.value = None
               /\ out.result.error[2] = out.data.status
       /\ out.data.status \in {"pending", "in_progress", "completed", "failed",
                               "waiting_user"}
            => out.result.ok /\ out.result.value.status = out.data.status
  /\ (out.op = "load" /\ file.state = "written") =>
       LET offending == {j \in DOMAIN file.data.tasks :
                           file.data.tasks[j].status \notin
                             {"pending", "in_progress", "completed", "failed",
                              "waiting_user"}}
       IN  IF offending = {} THEN out.result.ok
           ELSE LET first == CHOOSE j \in offending : \A h \in offending : j <= h IN
                  /\ ~out.result.ok
                  /\ out.result.value = None
                  /\ out.result.error[2] = file.data.tasks[first].status

\* load raised on a snapshot whose first record is sound and whose second record has
\* the tag "PENDING"; the error names that tag
C18_Witness ==
  /\ out.op = "load"
  /\ ~out.result.ok
  /\ file.state = "written"
  /\ Len(file.data.tasks) = 2
  /\ file.data.tasks[1].status = "completed"
  /\ file.data.tasks[2].status = "PENDING"
  /\ out.result.error[2] = "PENDING"

\* the sections of a text joined with blank lines
RECURSIVE SplitSections(_, _)
SplitSections(text, section) ==
  IF text = <<>> THEN <<section>>
  ELSE IF Head(text) = "[blank line]"
       THEN <<section>> \o SplitSections(Tail(text), <<>>)
       ELSE SplitSections(Tail(text), Append(section, Head(text)))

\* C19: for any list of registered papers and any subset of them whose request raises,
\* the Analyze handler issues exactly one generation request per paper, in list order,
\* does not raise (the task ends Completed), and returns one section per paper: the
\* analysis for a paper whose request succeeded, an error note for a paper whose request
\* raised; a failure on one paper does not stop the requests for the papers after it
C19_OneSectionPerPaper ==
  /\ pc = "analyze" =>
       /\ Len(genLog) = k - 1
       /\ Len(analysis_results) = k - 1
       /\ k <= Len(papers) + 1
  /\ \A m \in DOMAIN genLog :
       /\ m <= Len(papers)
       /\ genLog[m].handler = "analysis"
       /\ genLog[m].prompt = <<papers[m].title>>
  /\ pc = "finish" => hres.ok
  /\ success # "False"
  /\ ((pc = "finish" \/ (pc = "idle" /\ handlerLog # <<>>)) /\ papers # <<>>) =>
       /\ Len(genLog) = Len(papers)
       /\ IsSet(tasks[1].metadata.paper_analysis)
       /\ LET sections == SplitSections(tasks[1].metadata.paper_analysis[1], <<>>) IN
            /\ Len(sections) = Len(papers)
            /\ \A m \in DOMAIN papers :
                 /\ sections[m][1] = "### "
                 /\ sections[m][2] = papers[m].title
                 /\ genLog[m].ok =>
                      sections[m] = <<"### ", papers[m].title>> \o genLog[m].text
                 /\ ~genLog[m].ok =>
                      sections[m] = <<"### ", papers[m].title, "Error analyzing paper: ">>
                                      \o genLog[m].text
  /\ (pc = "finish" /\ papers # <<>>) =>
       hres.text = <<"Analyzed ", ToString(Len(papers)), " papers.">>
                     \o tasks[1].metadata.paper_analysis[1]
  /\ (pc = "idle" /\ handlerLog # <<>>) =>
       /\ tasks[1].status = COMPLETED
       /\ success = "True"

\* the handler returned for two papers: the request for the first raised, the request
\* for the second was still issued and succeeded
C19_Witness ==
  /\ pc = "finish"
  /\ Len(papers) = 2
  /\ Len(genLog) = 2
  /\ ~genLog[1].ok
  /\ genLog[2].ok
  /\ hres.ok
  /\ "Error analyzing paper: " \in {hres.text[n] : n \in DOMAIN hres.text}

\* C20: the Upload handler issues no generation request, registers no paper, and sets
\* the task's status to WAITING_USER before it returns its instruction text
C20_UploadForcesWaiting ==
  [][(pc = "exec" /\ Route(tasks[i].title) = "upload") =>
       /\ genLog' = genLog
       /\ papers' = papers
       /\ papers_file' = papers_file
       /\ tasks'[i].status = WAITING_USER
       /\ tasks'[i] = [tasks[i] EXCEPT !.status = WAITING_USER]
       /\ \A j \in DOMAIN tasks : j # i => tasks'[j] = tasks[j]
       /\ pc' = "finish"
       /\ hres' = [ok |-> TRUE, text |-> UploadResult]]_vars

\* execute_task was called on an Upload task with a paper registered; the handler has
\* returned: no request, the paper list as it was, the task WAITING_USER
C20_Witness ==
  /\ caller = "direct"
  /\ pc = "finish"
  /\ handlerLog = <<[task |-> i, handler |-> "upload"]>>
  /\ genLog = <<>>
  /\ papers = <<NewPaper("P1")>>
  /\ tasks[i].status = WAITING_USER
  /\ hres = [ok |-> TRUE, text |-> UploadResult]

\* ------------------------------------------------- the outline and the review
\* an outline a client put into a task's metadata, and one an earlier run left in
\* the workflow's metadata
ClientOutline == <<"client outline">>
EarlierOutline == <<"earlier outline">>

\* the tasks of such a workflow: an Outline task, a Write task, and a Write task that
\* carries an outline of its own
OutlineTasks(n) ==
  {NewTask(TaskId(n), {"Create", "Outline"}, Description({"Create", "Outline"}), PENDING),
   NewTask(TaskId(n), {"Write", "Review"}, Description({"Write", "Review"}), PENDING),
   [NewTask(TaskId(n), {"Write", "Review"}, Description({"Write", "Review"}), PENDING)
      EXCEPT !.metadata = StoreOutline(@, ClientOutline)]}

\* an agent that has no current workflow yet, and a workflow of Outline and Write tasks
InitOutline ==
  /\ tasks \in UNION {{s \in [1..m -> UNION {OutlineTasks(n) : n \in 1..m}] :
                         \A n \in 1..m : s[n] \in OutlineTasks(n)} : m \in 1..MaxTasks}
  /\ wf_metadata \in {[outline |-> None], [outline |-> Some(EarlierOutline)]}
  /\ current_workflow = "None"
  /\ papers = <<>>
  /\ papers_file = [state |-> "absent", data |-> <<>>]
  /\ file = [state |-> "absent", data |-> <<>>]
  /\ clock = 1
  /\ pc = "idle"
  /\ caller = "None"
  /\ i = 0
  /\ k = 0
  /\ analysis_results = <<>>
  /\ hres = NoOutcome
  /\ success = "None"
  /\ ret = "None"
  /\ calls = 0
  /\ handlerLog = <<>>
  /\ genLog = <<>>
  /\ snap = tasks
  /\ current_task_index = 0
  /\ out = NoCall

\* the steps such a workflow can take
NextOutline ==
  \/ RunWorkflow
  \/ ExecuteTask
  \/ Visit
  \/ HandleOutlineCreation
  \/ HandleWriting
  \/ TaskSucceeds
  \/ TaskFails
  \/ SaveAndReturn

SpecOutline == InitOutline /\ [][NextOutline]_vars

\* the Outline handler has returned for the task in hand
OutlineReturned ==
  /\ pc = "finish"
  /\ Route(tasks[i].title) = "outline"
  /\ hres.ok

\* C21 (as stated): after an Outline task was executed successfully, the text the
\* generation collaborator returned is, unchanged, the value of 'outline' in the
\* workflow's metadata and in the task's metadata, and the task's result, whether
\* run_workflow or a direct execute_task executed it; when generation raises, neither
\* metadata is changed
C21_OutlineInBothMetadata ==
  /\ [](OutlineReturned =>
          /\ genLog[Len(genLog)].ok
          /\ genLog[Len(genLog)].text = hres.text
          /\ tasks[i].metadata.outline = Some(hres.text)
          /\ wf_metadata.outline = Some(hres.text))
  /\ [][OutlineReturned => tasks'[i].result = Some(hres.text)]_vars
  /\ [][(pc = "exec" /\ Route(tasks[i].title) = "outline" /\ ~hres'.ok) =>
          /\ wf_metadata' = wf_metadata
          /\ tasks'[i].metadata = tasks[i].metadata]_vars

\* C21 (amended): after an Outline task was executed successfully, the text the
\* generation collaborator returned is, unchanged, the value of 'outline' in the task's
\* metadata and the task's result; it is the value of 'outline' in the metadata of the
\* agent's current workflow when the agent has one, which is so in every run_workflow
\* call; in a direct execute_task call on an agent without a current workflow the
\* workflow's metadata is left as it was; when generation raises, neither metadata is
\* changed
C21_OutlineInCurrentWorkflow ==
  /\ [](OutlineReturned =>
          /\ genLog[Len(genLog)].ok
          /\ genLog[Len(genLog)].text = hres.text
          /\ tasks[i].metadata.outline = Some(hres.text)
          /\ current_workflow # "None" => wf_metadata.outline = Some(hres.text)
          /\ caller = "run" => current_workflow # "None")
  /\ [][OutlineReturned => tasks'[i].result = Some(hres.text)]_vars
  /\ [][(pc = "exec" /\ Route(tasks[i].title) = "outline") =>
          /\ (current_workflow = "None" \/ ~hres'.ok) => wf_metadata' = wf_metadata
          /\ ~hres'.ok => tasks'[i].metadata = tasks[i].metadata
          /\ \A j \in DOMAIN tasks : j # i => tasks'[j] = tasks[j]]_vars

\* a run executed an Outline task over an outline an earlier run had left: the new text
\* replaced it in the workflow's metadata and is in the task's metadata
C21_Witness ==
  /\ caller = "run"
  /\ OutlineReturned
  /\ snap[i].metadata.outline = None
  /\ tasks[i].metadata.outline = Some(hres.text)
  /\ wf_metadata.outline = Some(hres.text)
  /\ Len(hres.text) = 2
  /\ hres.text # EarlierOutline

\* the requests the Write handler has issued for the task at position j in this call
WritingRequests(log, j) ==
  {n \in DOMAIN log : log[n].task = j /\ log[n].handler = "writing"}

\* C22: the Write handler puts into its request the value of 'outline' in the metadata of
\* the agent's current workflow if the key is there, otherwise the value of 'outline' in
\* the task's own metadata, otherwise the empty text; in a run where an Outline task
\* completed before the Write task, the request carries the outline that task stored;
\* the handler issues one request, and the renderer is invoked and 'output_files' and
\* 'review_content' are written only if that request succeeded
C22_WriteUsesStoredOutline ==
  [][(pc = "exec" /\ Route(tasks[i].title) = "writing") =>
       LET req == genLog'[Len(genLog')] IN
         /\ Len(genLog') = Len(genLog) + 1
         /\ WritingRequests(genLog', i) = {Len(genLog')}
         /\ req.prompt =
              IF current_workflow # "None" /\ wf_metadata.outline # None
              THEN wf_metadata.outline[1]
              ELSE IF tasks[i].metadata.outline # None
              THEN tasks[i].metadata.outline[1]
              ELSE <<>>
         /\ \A n \in DOMAIN handlerLog :
              (caller = "run" /\ handlerLog[n].handler = "outline"
                 /\ handlerLog[n].task < i) =>
                /\ tasks[handlerLog[n].task].status = COMPLETED
                /\ Some(req.prompt) = tasks[handlerLog[n].task].metadata.outline
                /\ Some(req.prompt) = tasks[handlerLog[n].task].result
         /\ clock' # clock => req.ok
         /\ tasks'[i].metadata.output_files # tasks[i].metadata.output_files => req.ok
         /\ tasks'[i].metadata.review_content # tasks[i].metadata.review_content =>
              req.ok /\ tasks'[i].metadata.review_content = Some(req.text)
         /\ ~req.ok => tasks' = tasks /\ hres' = [ok |-> FALSE, text |-> req.text]
         /\ wf_metadata' = wf_metadata]_vars

\* a run over a workflow that held an earlier outline: the Outline task replaced it, and
\* the Write task after it, which carries an outline of its own, was sent the new one
C22_Witness ==
  /\ caller = "run"
  /\ pc = "finish"
  /\ i = 2
  /\ hres.ok
  /\ handlerLog = <<[task |-> 1, handler |-> "outline"], [task |-> 2, handler |-> "writing"]>>
  /\ tasks[2].metadata.outline = Some(ClientOutline)
  /\ genLog[2].prompt = genLog[1].text
  /\ genLog[2].prompt # ClientOutline
  /\ tasks[2].metadata.review_content = Some(genLog[2].text)
  /\ IsSet(tasks[2].metadata.output_files)

\* ------------------------------------------------------- the paper manager
\* what no method of PaperManager touches
managerFrame == <<tasks, wf_metadata, current_workflow, file, clock, pc, caller, i, k,
                  analysis_results, hres, success, ret, calls, handlerLog, genLog, snap,
                  current_task_index>>

\* titles a client gives to papers: two that differ in case only
ManagerTitles == {"P1", "p1"}

\* summaries and key findings a client hands to update_paper_summary
Summaries == {<<"summary">>}
FindingLists == {<<>>, <<"finding">>}

\* paper_manager.add_paper(paper): append, then _save_metadata
AddPaper(paper) ==
  /\ pc = "idle"
  /\ Len(papers) < MaxPapers
  /\ papers' = Append(papers, paper)
  /\ papers_file' \in PapersFileAfterSave(papers_file, papers')
  /\ out' = [op |-> "add_paper", paper |-> paper]
  /\ UNCHANGED managerFrame

\* paper_manager.update_paper_summary(title, summary, key_findings): the file is
\* rewritten if a paper has that title
UpdateSummary(title, summary, key_findings) ==
  /\ pc = "idle"
  /\ papers' = UpdatePaperSummary(papers, title, summary, key_findings)
  /\ IF PaperByTitle(papers, title) # 0
     THEN papers_file' \in PapersFileAfterSave(papers_file, papers')
     ELSE UNCHANGED papers_file
  /\ out' = [op |-> "update_paper_summary", found |-> PaperByTitle(papers, title) # 0]
  /\ UNCHANGED managerFrame

\* paper_manager.list_papers()
ListPapers ==
  /\ pc = "idle"
  /\ out' = [op |-> "list_papers", value |-> papers]
  /\ UNCHANGED <<managerFrame, papers, papers_file>>

\* PaperManager(papers_dir) on the same directory: the list is what _load_metadata reads
OpenPaperManager ==
  /\ pc = "idle"
  /\ papers' = LoadMetadata(papers_file)
  /\ out' = [op |-> "open", before |-> papers]
  /\ UNCHANGED <<managerFrame, papers_file>>

NextPapers ==
  \/ \E title \in ManagerTitles : AddPaper(NewPaper(title))
  \/ \E title \in ManagerTitles \cup {"P2"}, summary \in Summaries,
        key_findings \in FindingLists : UpdateSummary(title, summary, key_findings)
  \/ ListPapers
  \/ OpenPaperManager

\* a PaperManager opened on an empty directory
InitPapers ==
  /\ tasks = <<>>
  /\ wf_metadata = [outline |-> None]
  /\ current_workflow = "None"
  /\ papers = <<>>
  /\ papers_file = [state |-> "absent", data |-> <<>>]
  /\ file = [state |-> "absent", data |-> <<>>]
  /\ clock = 1
  /\ pc = "idle"
  /\ caller = "None"
  /\ i = 0
  /\ k = 0
  /\ analysis_results = <<>>
  /\ hres = NoOutcome
  /\ success = "None"
  /\ ret = "None"
  /\ calls = 0
  /\ handlerLog = <<>>
  /\ genLog = <<>>
  /\ snap = tasks
  /\ current_task_index = 0
  /\ out = NoCall

SpecPapers == InitPapers /\ [][NextPapers]_vars

\* C23: after any sequence of add_paper and update_paper_summary calls, list_papers()
\* returns the added papers in insertion order, the metadata file holds exactly that
\* list, and a new PaperManager opened on the same directory lists the same papers in
\* the same order with the same summaries
C23_FileHoldsTheList ==
  /\ [](/\ out.op = "list_papers" => out.value = papers
        /\ papers # <<>> =>
             /\ papers_file.state = "written"
             /\ papers_file.data = [j \in DOMAIN papers |-> PaperToDict(papers[j])])
  /\ [][/\ out'.op = "add_paper" /\ vars' # vars => papers' = Append(papers, out'.paper)
        /\ out'.op = "update_paper_summary" /\ vars' # vars =>
             /\ Len(papers') = Len(papers)
             /\ \A j \in DOMAIN papers : papers'[j].title = papers[j].title
        /\ out'.op = "open" /\ vars' # vars => papers' = papers]_vars

\* ------------------------------------------------------- the order of a run
\* the tasks that are IN_PROGRESS
InProgress == {j \in DOMAIN tasks : tasks[j].status = IN_PROGRESS}

\* C24: during one run_workflow call the tasks are visited in list order and each at
\* most once: the position never goes back, no task has its handler invoked twice, and a
\* task that failed had its handler invoked exactly once and ends the run; the status of
\* a task does not change before every task ahead of it is Completed; at most one task
\* is IN_PROGRESS in any state of the run
C24_InOrderOneAtATime ==
  /\ [](caller = "run" =>
          /\ \A m, n \in DOMAIN handlerLog :
               m < n => handlerLog[m].task < handlerLog[n].task
          /\ \A n \in DOMAIN handlerLog : handlerLog[n].task <= i
          /\ Cardinality(InProgress) <= 1
          /\ InProgress \subseteq {i}
          /\ success = "False" =>
               /\ pc = "idle"
               /\ Cardinality({n \in DOMAIN handlerLog : handlerLog[n].task = i}) = 1)
  /\ [][(caller = "run" /\ caller' = "run" /\ pc # "idle") =>
          /\ i' \in {i, i + 1}
          /\ i' = i + 1 => tasks'[i].status = COMPLETED
          /\ \A j \in DOMAIN tasks :
               tasks'[j].status # tasks[j].status =>
                 /\ j = i
                 /\ \A h \in 1..(j - 1) : tasks[h].status = COMPLETED]_vars

\* a second run over a workflow of two tasks: the first task was executed again and is
\* Completed, the second one is being executed
C24_Witness ==
  /\ caller = "run"
  /\ calls = 2
  /\ pc = "exec"
  /\ i = 2
  /\ Len(handlerLog) = 1
  /\ handlerLog[1].task = 1
  /\ tasks[1].status = COMPLETED
  /\ InProgress = {2}

\* C25: execute_task sets the task IN_PROGRESS before the handler runs: the handler is
\* chosen, and every request to the generation collaborator, every update of the paper
\* collection and every rendering is made, in a state where the task in hand is
\* IN_PROGRESS; the Upload handler, which makes none of these calls, is the only one
\* that changes the status before execute_task finishes
C25_InProgressBeforeExternalCalls ==
  /\ [](pc \in {"exec", "analyze"} => tasks[i].status = IN_PROGRESS)
  /\ [](pc = "finish" =>
          tasks[i].status = IF Route(tasks[i].title) = "upload" THEN WAITING_USER
                            ELSE IN_PROGRESS)
  /\ [][(genLog' # genLog /\ genLog' # <<>>) =>
          /\ tasks[i].status = IN_PROGRESS
          /\ genLog'[Len(genLog')].task = i
          /\ genLog'[Len(genLog')].handler # "upload"]_vars
  /\ [][(handlerLog' # handlerLog /\ handlerLog' # <<>>) =>
          /\ tasks[i].status = IN_PROGRESS
          /\ handlerLog'[Len(handlerLog')].task = i]_vars
  /\ [][(papers' # papers \/ papers_file' # papers_file) =>
          tasks[i].status = IN_PROGRESS]_vars
  /\ [][(pc \in {"exec", "analyze"} /\ clock' # clock) =>
          tasks[i].status = IN_PROGRESS]_vars

\* a run reached an Analyze task that an earlier call had left Completed: the task is
\* IN_PROGRESS again and no request has been issued for it yet
C25_Witness ==
  /\ caller = "run"
  /\ pc = "exec"
  /\ snap[i].status = COMPLETED
  /\ tasks[i].status = IN_PROGRESS
  /\ Route(tasks[i].title) = "analysis"
  /\ papers # <<>>
  /\ genLog = <<>>

\* C26: when saving the snapshot fails at the end of a full pass, run_workflow returns
\* neither True nor False: the error goes to the caller, every task is left Completed,
\* the call is over (the save is not tried again) and no task is changed
C26_SaveFailurePropagates ==
  /\ []((caller = "run" /\ pc = "idle" /\ i > Len(tasks)) =>
          /\ ret \in {"True", "raised"}
          /\ success # "False"
          /\ \A j \in DOMAIN tasks : tasks[j].status = COMPLETED
          /\ ret = "True" => file.state = "written")
  /\ [][(pc = "loop" /\ i > Len(tasks)) =>
          /\ pc' = "idle"
          /\ tasks' = tasks
          /\ calls' = calls
          /\ file' # [state |-> "written", data |-> WorkflowToDict] =>
               /\ ret' = "raised"
               /\ file' \in {file, [state |-> "failed", data |-> <<>>]}]_vars

\* a run of two tasks went through, the save failed part way: the call raised and both
\* tasks are Completed
C26_Witness ==
  /\ caller = "run"
  /\ pc = "idle"
  /\ ret = "raised"
  /\ Len(tasks) = 2
  /\ i = 3
  /\ file.state = "failed"
  /\ tasks[1].status = COMPLETED
  /\ tasks[2].status = COMPLETED

\* ------------------------------------ a run over any statuses and any cursor
\* the task at position n of a workflow a client built or loaded: any status
AnyStatusTasks(n) ==
  {NewTask(TaskId(n), {"Collect", "Papers"}, Description({"Collect", "Papers"}), s) :
     s \in TaskStatus}

\* a workflow of such tasks, with the cursor anywhere
InitAny ==
  /\ tasks \in UNION {{s \in [1..m -> UNION {AnyStatusTasks(n) : n \in 1..m}] :
                         \A n \in 1..m : s[n] \in AnyStatusTasks(n)} : m \in 0..MaxTasks}
  /\ current_task_index \in 0..MaxTasks
  /\ wf_metadata = [outline |-> None]
  /\ current_workflow = "None"
  /\ papers = <<>>
  /\ papers_file = [state |-> "absent", data |-> <<>>]
  /\ file = [state |-> "absent", data |-> <<>>]
  /\ clock = 1
  /\ pc = "idle"
  /\ caller = "None"
  /\ i = 0
  /\ k = 0
  /\ analysis_results = <<>>
  /\ hres = NoOutcome
  /\ success = "None"
  /\ ret = "None"
  /\ calls = 0
  /\ handlerLog = <<>>
  /\ genLog = <<>>
  /\ snap = tasks
  /\ out = NoCall

\* run_workflow on such a workflow, and next_task between the runs
NextAny ==
  \/ RunWorkflow
  \/ Prompt
  \/ Ack
  \/ Visit
  \/ HandlePaperCollection
  \/ TaskSucceeds
  \/ TaskFails
  \/ SaveAndReturn
  \/ NextTask

SpecAny == InitAny /\ [][NextAny]_vars

\* the run has returned
RunReturned(value) == caller = "run" /\ pc = "idle" /\ ret = value

\* C27: run_workflow does not use the workflow's cursor: whatever current_task_index is,
\* the loop starts at the first task, a run that returns True has gone through every
\* task, and current_task_index is after the run, successful or failed, what it was
\* before; the snapshot carries it as it is
C27_CursorNotUsed ==
  /\ [][(pc = "idle" /\ pc' = "loop") =>
          /\ i' = 1
          /\ handlerLog' = <<>>]_vars
  /\ [][(pc # "idle" \/ pc' # "idle") => current_task_index' = current_task_index]_vars
  /\ [][(pc = "loop" /\ ret' = "True") =>
          /\ file'.state = "written"
          /\ file'.data.current_task_index = current_task_index]_vars
  /\ [](RunReturned("True") =>
          /\ i = Len(tasks) + 1
          /\ \A j \in DOMAIN tasks :
               /\ tasks[j].status = COMPLETED
               /\ snap[j] = tasks[j]
               /\ snap[j].status = COMPLETED)
  /\ [](RunReturned("False") =>
          \E n \in DOMAIN handlerLog : handlerLog[n].task = i)

\* a run over two tasks with the cursor past the end: it started at the first task,
\* went through both and returned True, and the cursor is still past the end
C27_Witness ==
  /\ RunReturned("True")
  /\ Len(tasks) = 2
  /\ current_task_index = 2
  /\ Len(handlerLog) = 2
  /\ handlerLog[1].task = 1
  /\ file.state = "written"
  /\ file.data.current_task_index = 2

\* C28: whatever the statuses of the tasks before the run: when run_workflow returns True
\* every task is Completed and is_complete() is True, for a workflow without tasks too;
\* when it returns False there is a position where the task is Failed, every task before
\* it is Completed and every task after it has the status it had before the run, and
\* is_complete() is False
C28_ReturnValueAndStatuses ==
  /\ RunReturned("True") =>
       /\ \A j \in DOMAIN tasks : tasks[j].status = COMPLETED
       /\ All(CompletedFlags(tasks)) = TRUE
  /\ RunReturned("False") =>
       /\ i \in DOMAIN tasks
       /\ tasks[i].status = FAILED
       /\ \A j \in 1..(i - 1) : tasks[j].status = COMPLETED
       /\ \A j \in (i + 1)..Len(tasks) : tasks[j].status = snap[j].status
       /\ All(CompletedFlags(tasks)) = FALSE
  /\ (caller = "run" /\ pc = "idle") => ret \in {"True", "False", "raised"}
  /\ (caller = "run" /\ pc = "loop" /\ i = 1 /\ handlerLog = <<>>) => snap = tasks

\* a run over a task that was Completed and a task that was IN_PROGRESS before: the
\* first one was executed again and failed, the run returned False, the second one is
\* still IN_PROGRESS
C28_Witness ==
  /\ RunReturned("False")
  /\ calls = 1
  /\ i = 1
  /\ Len(tasks) = 2
  /\ tasks[1].status = FAILED
  /\ snap[1].status = COMPLETED
  /\ tasks[2].status = IN_PROGRESS

\* C29: a task that is not WAITING_USER when the run reaches it and whose title routes
\* it to the Upload handler is Completed when execute_task returns True: the
\* WAITING_USER the handler set is overwritten before execute_task returns and is not
\* seen after the call, and the run goes on to the next task without a prompt; the run
\* waits for the operator only on a task that was WAITING_USER before it was visited
C29_UploadCompletesWithoutPause ==
  /\ [](\A n \in DOMAIN handlerLog :
          (handlerLog[n].handler = "upload"
             /\ ~(pc = "finish" /\ i = handlerLog[n].task)) =>
            /\ tasks[handlerLog[n].task].status = COMPLETED
            /\ tasks[handlerLog[n].task].result = Some(UploadResult))
  /\ [](pc = "await_input" =>
          /\ snap[i].status = WAITING_USER
          /\ \A n \in DOMAIN handlerLog : handlerLog[n].task # i)
  /\ [][(pc = "finish" /\ Route(tasks[i].title) = "upload") =>
          /\ tasks[i].status = WAITING_USER
          /\ tasks'[i].status = COMPLETED
          /\ success' = "True"
          /\ caller = "run" => pc' = "loop" /\ i' = i + 1
          /\ caller = "direct" => pc' = "idle" /\ ret' = "True"]_vars
  /\ [][(pc' = "await_input" /\ pc # "await_input") =>
          /\ pc = "loop"
          /\ tasks[i].status = WAITING_USER
          /\ tasks' = tasks]_vars

\* a run reached a Pending 'Upload Papers' task, executed it and is already executing
\* the task after it: the Upload task is Completed with the instructions as its result
C29_Witness ==
  /\ caller = "run"
  /\ calls = 1
  /\ pc = "exec"
  /\ i = 2
  /\ handlerLog = <<[task |-> 1, handler |-> "upload"]>>
  /\ tasks[1].title = {"Upload", "Papers"}
  /\ tasks[1].status = COMPLETED
  /\ tasks[1].result = Some(UploadResult)
  /\ snap[1] = tasks[1]

\* ------------------------------------------------------ the decomposition
\* a response is a list of lines; a line, stripped, is a list of pieces: digits, words
\* and the separators ". ", ") " and ": " the parser looks for
MaxLines == 3

Digits == {"1", "2", "3"}

\* the lines a response is made of: an item with a description, an item with a
\* parenthesis and no description, a sentence, a blank line, an item with no space
\* after the dot, and a sentence that begins with a digit
ResponseLines ==
  {<<"1", ". ", "Collect", "Papers", ": ", "find", "them">>,
   <<"2", ") ", "Upload", "Papers">>,
   <<"Here", "are", "the", "steps", ":">>,
   <<>>,
   <<"3", ".", "Write", "Review">>,
   <<"3", "D", "Structure", ". ", "Review">>}

\* sep in text
Has(text, sep) == \E n \in DOMAIN text : text[n] = sep

\* position of the first sep in text
FirstAt(text, sep) ==
  CHOOSE n \in DOMAIN text : text[n] = sep /\ \A m \in 1..(n - 1) : text[m] # sep

\* text.split(sep, 1)[0]
BeforeFirst(text, sep) ==
  IF Has(text, sep) THEN SubSeq(text, 1, FirstAt(text, sep) - 1) ELSE text

\* text.split(sep, 1)[-1]
AfterFirst(text, sep) ==
  IF Has(text, sep) THEN SubSeq(text, FirstAt(text, sep) + 1, Len(text)) ELSE text

\* the words of a title
Words(text) == {text[n] : n \in DOMAIN text}

\* line[0].isdigit() and ('. ' in line or ') ' in line), for a line that is not empty
IsItem(line) ==
  /\ line # <<>>
  /\ Head(line) \in Digits
  /\ Has(line, ". ") \/ Has(line, ") ")

\* the Task _parse_subtasks builds from an item
TaskOfLine(line, task_num) ==
  IF Has(line, ": ")
  THEN NewTask(TaskId(task_num),
               Words(AfterFirst(AfterFirst(BeforeFirst(line, ": "), ". "), ") ")),
               AfterFirst(line, ": "), PENDING)
  ELSE LET title == AfterFirst(AfterFirst(line, ". "), ") ") IN
       NewTask(TaskId(task_num), Words(title), title, PENDING)

\* the loop of _parse_subtasks: task_num moves on after an item only
RECURSIVE ParseLines(_, _)
ParseLines(lines, task_num) ==
  IF lines = <<>> THEN <<>>
  ELSE IF IsItem(Head(lines))
       THEN <<TaskOfLine(Head(lines), task_num)>> \o ParseLines(Tail(lines), task_num + 1)
       ELSE ParseLines(Tail(lines), task_num)

\* _get_default_review_tasks
DefaultReviewTasks ==
  <<NewTask("task_1", {"Collect", "Relevant", "Papers"},
            <<"Search and identify relevant research papers for the review">>, PENDING),
    NewTask("task_2", {"Upload", "Papers"},
            <<"Download identified papers and upload them to the system">>, WAITING_USER),
    NewTask("task_3", {"Analyze", "Papers"},
            <<"Read and analyze the uploaded papers, extract key findings">>, PENDING),
    NewTask("task_4", {"Create", "Outline"},
            <<"Create a comprehensive outline for the literature review">>, PENDING),
    NewTask("task_5", {"Write", "Literature", "Review"},
            <<"Write the complete literature review section by section">>, PENDING)>>

\* ParseSubtasks without the fallback
ParseSubtasksNoDefault(response) == ParseLines(response, 1)

\* _parse_subtasks: return tasks if tasks else self._get_default_review_tasks()
ParseSubtasks(response) ==
  IF ParseLines(response, 1) # <<>> THEN ParseLines(response, 1) ELSE DefaultReviewTasks

\* what generate gives decompose_task: a text of one to MaxLines lines, or an exception
DecomposeOutcomes ==
  {[ok |-> TRUE, text |-> r] : r \in SeqsUpTo(ResponseLines, MaxLines) \ {<<>>}} \cup
  {[ok |-> FALSE, text |-> e] : e \in ProviderErrors}

\* agent.decompose_task(main_task): the try around generate and _parse_subtasks
DecomposeTask ==
  /\ pc = "idle"
  /\ \E g \in DecomposeOutcomes :
       out' = [op |-> "decompose_task", outcome |-> g,
               result |-> IF g.ok THEN Returns(ParseSubtasks(g.text))
                          ELSE Returns(DefaultReviewTasks)]
  /\ UNCHANGED <<agentState, file, tasks, snap, current_task_index>>

NextDecompose == DecomposeTask

\* a new agent
InitDecompose == InitWorkflow /\ papers = <<>>

SpecDecompose == InitDecompose /\ [][NextDecompose]_vars

\* the numbered lines of the responses explored: the lines that begin with a digit and
\* have ". " or ") " in them, with the title each one gives
NumberedLineTitles ==
  (<<"1", ". ", "Collect", "Papers", ": ", "find", "them">> :> {"Collect", "Papers"}) @@
  (<<"2", ") ", "Upload", "Papers">> :> {"Upload", "Papers"}) @@
  (<<"3", "D", "Structure", ". ", "Review">> :> {"Review"})

IsNumberedLine(line) == line \in DOMAIN NumberedLineTitles

\* C30: decompose_task does not raise and does not return an empty list: when the
\* generation collaborator raises, or no line of its response is a numbered line (one
\* that begins with a digit and has ". " or ") " in it), it returns the five default
\* tasks, ids task_1 to task_5, the second one WAITING_USER and the others Pending;
\* otherwise it returns one Pending task per numbered line, in the order of the
\* response, with the ids task_1 to task_n
C30_DecomposeNeverEmpty ==
  out.op = "decompose_task" =>
    LET value == out.result.value
        numbered == IF out.outcome.ok THEN SelectSeq(out.outcome.text, IsNumberedLine)
                    ELSE <<>>
    IN  /\ out.result.ok
        /\ value # <<>>
        /\ \A n \in DOMAIN value : value[n].id = TaskId(n)
        /\ \A m, n \in DOMAIN value : m # n => value[m].id # value[n].id
        /\ IF numbered = <<>>
           THEN /\ Len(value) = 5
                /\ [n \in 1..5 |-> value[n].status] =
                     <<PENDING, WAITING_USER, PENDING, PENDING, PENDING>>
                /\ [n \in 1..5 |-> Route(value[n].title \cap Vocabulary)] =
                     <<"collection", "upload", "analysis", "outline", "writing">>
           ELSE /\ Len(value) = Len(numbered)
                /\ \A n \in DOMAIN value :
                     /\ value[n].status = PENDING
                     /\ value[n].title = NumberedLineTitles[numbered[n]]
                     /\ value[n].result = None
                     /\ value[n].completed_at = None

\* a response of three lines, the second one not numbered: two Pending tasks, task_1
\* and task_2, the second one titled 'Upload Papers'
C30_Witness ==
  /\ out.op = "decompose_task"
  /\ out.outcome.ok
  /\ Len(out.outcome.text) = 3
  /\ out.outcome.text[2] = <<"3", ".", "Write", "Review">>
  /\ Len(out.result.value) = 2
  /\ out.result.value[1].title = {"Collect", "Papers"}
  /\ out.result.value[2].id = "task_2"
  /\ out.result.value[2].title = {"Upload", "Papers"}
  /\ out.result.value[2].status = PENDING

====
